---------------------------- MODULE Spec2Model ----------------------------
(***************************************************************************)
(* Model of the V3 sheet-music processor (App3 and processSingleImage) and *)
(* of the merge tool (SheetMusicToolPro).                                  *)
(*                                                                         *)
(* The specifications of this module:                                      *)
(*   Spec            - the App3 component: gallery, selection, controls,   *)
(*                     the debounced live preview and the ingestion jobs;  *)
(*   ConvergenceSpec - App3 when no computation fails and nothing is       *)
(*                     removed;                                            *)
(*   PipelineSpec    - one invocation of processSingleImage on a source    *)
(*                     image and a settings value, step by step;           *)
(*   OutOfRangeSpec  - the same with settings outside CONFIG.ranges;       *)
(*   ThresholderSpec - getSoftVal and the per-pixel step, one call;        *)
(*   MergeSpec       - the merge tool: image list, settings, the debounced *)
(*                     preview and the processAndMerge runs.               *)
(*                                                                         *)
(* Numbers.  scaleMultiplier moves in steps of 0.5, so every length the    *)
(* pipeline computes is a multiple of 0.5; such lengths are held doubled   *)
(* ("in halves"): targetWidth 4.5 is the integer 9.  Values compared by    *)
(* getSoftVal are multiples of 1/200 and are held multiplied by 200.  The  *)
(* arithmetic is exact; the rounding of IEEE doubles is not modelled.      *)
(***************************************************************************)
EXTENDS Integers, Sequences, FiniteSets, Bags, TLC

VARIABLES
    \* ---- App3 (React state, refs, timers, promises in flight)
    galleryItems,    \* useState<GalleryItem[]>: sequence of item records
    selectedItem,    \* useState<GalleryItem | null>: a copy of an item, or Null
    controls,        \* the thirteen settings useState values, as one record
    settingsRef,     \* settingsRef.current
    timers,          \* pending setTimeout callbacks of the live preview
    jobs,            \* processSingleImage promises not yet settled (a bag)
    quiet,           \* ms since a setting last changed (capped at DebounceMs)
    nextId,          \* ids handed out so far (Math.random ids are fresh)
    \* ---- processSingleImage (one invocation)
    img,             \* the decoded source image
    settings,        \* the settings argument
    pc,              \* position in the invocation
    scaledCanvas,    \* the rescaled original
    canvas,          \* the working canvas (composited after thresholding)
    blurLevel,       \* blurData: the background estimate read back
    box,             \* minX, minY, maxX, maxY, hasContent
    result,          \* the resolved ProcessResult
    \* ---- the thresholder taken alone (one call)
    call,            \* the arguments of a call of getSoftVal or of the per-pixel step
    ret,             \* the whiteness it returned
    \* ---- SheetMusicToolPro, the merge tool (React state, ref, runs in flight)
    images,            \* useState<ImageItem[]>: the list, each image stood for by its id
    processedResult,   \* useState<string | null>: the merged data URL, or Null
    isProcessing,      \* useState(false)
    mergeControls,     \* threshold, contrastBoost, superResolution as one record
    processingTimeout, \* the pending setTimeout of the preview effect, or Null
    mergeRuns,         \* processAndMerge calls awaiting their image loads (a bag)
    nextImageId        \* image ids handed out so far

\* mergeVars: the merge tool's state.  appVars: what an invocation of
\* processSingleImage leaves alone.  pipeVars: what App3 leaves alone.
\* otherVars: what the merge tool leaves alone.
mergeVars == <<images, processedResult, isProcessing, mergeControls, processingTimeout,
               mergeRuns, nextImageId>>
appVars   == <<galleryItems, selectedItem, controls, settingsRef, timers, jobs, quiet, nextId,
               mergeVars>>
callVars  == <<call, ret>>
pipeVars  == <<img, settings, pc, scaledCanvas, canvas, blurLevel, box, result, call, ret,
               mergeVars>>
otherVars == <<galleryItems, selectedItem, controls, settingsRef, timers, jobs, quiet, nextId,
               img, settings, pc, scaledCanvas, canvas, blurLevel, box, result, call, ret>>
vars      == <<galleryItems, selectedItem, controls, settingsRef, timers, jobs, quiet, nextId,
               img, settings, pc, scaledCanvas, canvas, blurLevel, box, result, call, ret,
               images, processedResult, isProcessing, mergeControls, processingTimeout,
               mergeRuns, nextImageId>>

Null == [null |-> TRUE]

Min(a, b) == IF a < b THEN a ELSE b
Max(a, b) == IF a > b THEN a ELSE b
Abs(a)    == IF a < 0 THEN -a ELSE a

-----------------------------------------------------------------------------
(* CONFIG                                                                  *)

DefaultThresholdAdaptive == 60
DefaultThresholdClassic  == 140
DefaultContrastBoost     == 20
DefaultScaleMultiplier   == 4        \* 2.0, in halves
DefaultSmoothness        == 5
DefaultPadding           == 50

ScaleMin == 2                        \* 1.0, in halves
ScaleMax == 6                        \* 3.0, in halves
ThresholdAdaptiveMin == 0
ThresholdAdaptiveMax == 100
ThresholdClassicMin  == 50
ThresholdClassicMax  == 220
ContrastBoostMin == 0
ContrastBoostMax == 60
SmoothnessMin == 0
SmoothnessMax == 20
PaddingMin == 0
PaddingMax == 300

\* The delay of the live preview: setTimeout(..., 300)
DebounceMs == 300

White == <<255, 255, 255>>           \* '#FFFFFF'
Black == <<0, 0, 0>>                 \* '#000000'

DefaultThreshold(algorithm) ==
    IF algorithm = "adaptive" THEN DefaultThresholdAdaptive ELSE DefaultThresholdClassic

ThresholdMin(algorithm) ==
    IF algorithm = "adaptive" THEN ThresholdAdaptiveMin ELSE ThresholdClassicMin

ThresholdMax(algorithm) ==
    IF algorithm = "adaptive" THEN ThresholdAdaptiveMax ELSE ThresholdClassicMax

\* CONFIG.defaults, as the Settings value the controls start with.
\* backgroundColor is held as the parsed (R, G, B) triple.
DefaultSettings ==
    [algorithm       |-> "adaptive",
     threshold       |-> DefaultThresholdAdaptive,
     contrastBoost   |-> DefaultContrastBoost,
     scaleMultiplier |-> DefaultScaleMultiplier,
     smoothness      |-> DefaultSmoothness,
     autoCrop        |-> TRUE,
     paddingMode     |-> "uniform",
     paddingTop      |-> DefaultPadding,
     paddingRight    |-> DefaultPadding,
     paddingBottom   |-> DefaultPadding,
     paddingLeft     |-> DefaultPadding,
     backgroundColor |-> White,
     isTransparent   |-> FALSE]

-----------------------------------------------------------------------------
(* processSingleImage: the pixel pipeline                                  *)
(*                                                                         *)
(* A buffer is [width, height, data]; data is the row-major sequence of    *)
(* its pixels, each <<R, G, B, A>>.  Pixel (x, y) is data[y*width + x + 1].*)

Pixel(buf, x, y) == buf.data[y * buf.width + x + 1]

InBuffer(buf, x, y) == x >= 0 /\ x < buf.width /\ y >= 0 /\ y < buf.height

\* imageData.data[k]: byte k of the flat RGBA array; reading past the end of
\* a typed array yields undefined.
Undefined == -1

DataAt(buf, k) ==
    IF k >= 0 /\ k < 4 * buf.width * buf.height
    THEN buf.data[(k \div 4) + 1][(k % 4) + 1]
    ELSE Undefined

\* const targetWidth = originalWidth * scaleMultiplier  (in halves)
TargetWidth(image, s) == image.width * s.scaleMultiplier

\* const scaledHeight = img.height * scaleFactor, scaleFactor being
\* targetWidth / originalWidth = scaleMultiplier  (in halves)
ScaledHeight(image, s) == image.height * s.scaleMultiplier

\* Mutant: the fraction rounds the size up instead of being dropped.
ToLong_Rounding(halves) == (halves + 1) \div 2

\* canvas.width = targetWidth, getImageData(0, 0, targetWidth, scaledHeight):
\* the WebIDL conversion to (unsigned) long drops the fraction.
ToLong(halves) == halves \div 2

\* drawImage(img, 0, 0, targetWidth, scaledHeight) onto a canvas of
\* ToLong(targetWidth) x ToLong(scaledHeight): each canvas pixel shows the
\* source pixel under its centre, clamped to the image's edge (the
\* smoothing filter's interpolation between neighbours is the platform's
\* and is not modelled).
DrawScaled(image, s) ==
    LET w == ToLong(TargetWidth(image, s))
        h == ToLong(ScaledHeight(image, s))
    IN  [width  |-> w,
         height |-> h,
         data   |-> [p \in 1..(w * h) |->
                        LET x == (p - 1) % w
                            y == (p - 1) \div w
                        IN  Pixel(image,
                                  Min(image.width - 1, (2 * x + 1) \div s.scaleMultiplier),
                                  Min(image.height - 1, (2 * y + 1) \div s.scaleMultiplier))]]

\* Mutant: the ramp is divided by the half-width, not by upper - lower.
getSoftVal_HalfBand(val, thresh, smooth) ==
    IF smooth = 0
    THEN IF val < thresh THEN [n |-> 0, d |-> 1] ELSE [n |-> 255, d |-> 1]
    ELSE LET lower == thresh - smooth
             upper == thresh + smooth
         IN  IF val <= lower THEN [n |-> 0, d |-> 1]
             ELSE IF val >= upper THEN [n |-> 255, d |-> 1]
             ELSE [n |-> (val - lower) * 255, d |-> smooth]

\* getSoftVal(val, thresh, smooth), all three multiplied by 200.  The
\* whiteness returned is the fraction n/d (d > 0).
getSoftVal(val, thresh, smooth) ==
    IF smooth = 0
    THEN IF val < thresh THEN [n |-> 0, d |-> 1] ELSE [n |-> 255, d |-> 1]
    ELSE LET lower == thresh - smooth
             upper == thresh + smooth
         IN  IF val <= lower THEN [n |-> 0, d |-> 1]
             ELSE IF val >= upper THEN [n |-> 255, d |-> 1]
             ELSE [n |-> (val - lower) * 255, d |-> upper - lower]

\* Storing the number n/d (d > 0) into a Uint8ClampedArray: round to the
\* nearest integer, ties to even, clamp to 0..255.
ToUint8Clamped(n, d) ==
    LET q == n \div d
        r == n % d
        rounded == IF 2 * r < d THEN q
                   ELSE IF 2 * r > d THEN q + 1
                   ELSE IF q % 2 = 0 THEN q ELSE q + 1
    IN  IF rounded < 0 THEN 0 ELSE IF rounded > 255 THEN 255 ELSE rounded

\* Parse Background Color: (bgR, bgG, bgB)
BgColor(s) == IF s.isTransparent THEN White ELSE s.backgroundColor

\* Mutant: the sensitivity offset is added to the background estimate
\* instead of subtracted from it.
Whiteness_OffsetAdded(r, bg, s) ==
    IF s.algorithm = "adaptive"
    THEN getSoftVal(200 * r, 200 * bg + 100 * (100 - s.threshold), 200 * s.smoothness)
    ELSE LET boosted == IF r < s.threshold + 40
                        THEN 2 * r * (100 - s.contrastBoost)
                        ELSE 200 * r
         IN  getSoftVal(boosted, 200 * s.threshold, 200 * s.smoothness)

\* Mutant: the ink boost is applied below the threshold only (no + 40).
Whiteness_BoostBelowThreshold(r, bg, s) ==
    IF s.algorithm = "adaptive"
    THEN getSoftVal(200 * r, 200 * bg - 100 * (100 - s.threshold), 200 * s.smoothness)
    ELSE LET boosted == IF r < s.threshold
                        THEN 2 * r * (100 - s.contrastBoost)
                        ELSE 200 * r
         IN  getSoftVal(boosted, 200 * s.threshold, 200 * s.smoothness)

\* Mutant: the band is taken from CONFIG.defaults.smoothness, not from the
\* settings argument.
Whiteness_DefaultSmoothness(r, bg, s) ==
    IF s.algorithm = "adaptive"
    THEN getSoftVal(200 * r, 200 * bg - 100 * (100 - s.threshold), 200 * DefaultSmoothness)
    ELSE LET boosted == IF r < s.threshold + 40
                        THEN 2 * r * (100 - s.contrastBoost)
                        ELSE 200 * r
         IN  getSoftVal(boosted, 200 * s.threshold, 200 * DefaultSmoothness)

\* Whiteness of a pixel with red value r; bg is blurData[i] (adaptive only).
Whiteness(r, bg, s) ==
    IF s.algorithm = "adaptive"
    THEN \* localThreshold = bgR_pixel - (100 - threshold) / 2
         getSoftVal(200 * r, 200 * bg - 100 * (100 - s.threshold), 200 * s.smoothness)
    ELSE \* if (r < threshold + 40) r = r * (1 - contrastBoost / 100)
         LET boosted == IF r < s.threshold + 40
                        THEN 2 * r * (100 - s.contrastBoost)
                        ELSE 200 * r
         IN  getSoftVal(boosted, 200 * s.threshold, 200 * s.smoothness)

\* Mutant: transparent mode stores the whiteness itself as alpha.
Composite_AlphaNotInverted(wh, s) ==
    IF s.isTransparent
    THEN <<0, 0, 0, ToUint8Clamped(wh.n, wh.d)>>
    ELSE LET bg == BgColor(s)
         IN  <<ToUint8Clamped(bg[1] * wh.n, 255 * wh.d),
               ToUint8Clamped(bg[2] * wh.n, 255 * wh.d),
               ToUint8Clamped(bg[3] * wh.n, 255 * wh.d),
               255>>

\* The four bytes written for a pixel of whiteness wh.
Composite(wh, s) ==
    IF s.isTransparent
    THEN <<0, 0, 0, ToUint8Clamped(255 * wh.d - wh.n, wh.d)>>
    ELSE LET bg == BgColor(s)
         IN  <<ToUint8Clamped(bg[1] * wh.n, 255 * wh.d),
               ToUint8Clamped(bg[2] * wh.n, 255 * wh.d),
               ToUint8Clamped(bg[3] * wh.n, 255 * wh.d),
               255>>

\* Mutant: the loop takes the mean of the three channels as the luminance.
ThresholdAll_ChannelMean(buf, bg, s) ==
    [buf EXCEPT !.data = [p \in 1..Len(buf.data) |->
                             Composite(Whiteness((buf.data[p][1] + buf.data[p][2]
                                                    + buf.data[p][3]) \div 3, bg, s), s)]]

\* The thresholding loop over data, followed by putImageData.
ThresholdAll(buf, bg, s) ==
    [buf EXCEPT !.data = [p \in 1..Len(buf.data) |->
                             Composite(Whiteness(buf.data[p][1], bg, s), s)]]


\* The content test of the bounding-box scan, at flat index idx.  A byte read
\* past the end is undefined: undefined > 10 is false, and a distance
\* computed from undefined is NaN, for which NaN > 30 is false.
IsContent(buf, idx, s) ==
    IF s.isTransparent
    THEN DataAt(buf, idx + 3) # Undefined /\ DataAt(buf, idx + 3) > 10
    ELSE LET bg == BgColor(s)
             r  == DataAt(buf, idx)
             g  == DataAt(buf, idx + 1)
             b  == DataAt(buf, idx + 2)
         IN  /\ r # Undefined /\ g # Undefined /\ b # Undefined
             /\ Abs(r - bg[1]) + Abs(g - bg[2]) + Abs(b - bg[3]) > 30

\* The integers n with n < halves/2: the values the loop variables x and y
\* take under  x < targetWidth  and  y < scaledHeight.
LoopCount(halves) == (halves + 1) \div 2

\* const idx = (y * targetWidth + x) * 4, targetWidth in halves.
ScanIndex(x, y, targetWidth) == 2 * y * targetWidth + 4 * x

\* One iteration of the inner loop body at (x, y).
ScanStep(b, buf, x, y, targetWidth, s) ==
    IF IsContent(buf, ScanIndex(x, y, targetWidth), s)
    THEN [minX |-> IF x < b.minX THEN x ELSE b.minX,
          maxX |-> IF x > b.maxX THEN x ELSE b.maxX,
          minY |-> IF y < b.minY THEN y ELSE b.minY,
          maxY |-> IF y > b.maxY THEN y ELSE b.maxY,
          hasContent |-> TRUE]
    ELSE b

\* The two nested loops, from iteration k on (k counts iterations in loop
\* order: y outer, x inner).
RECURSIVE ScanFrom(_, _, _, _, _, _)
ScanFrom(k, b, buf, targetWidth, scaledHeight, s) ==
    LET cols == LoopCount(targetWidth)
        rows == LoopCount(scaledHeight)
    IN  IF k >= cols * rows THEN b
        ELSE ScanFrom(k + 1,
                      ScanStep(b, buf, k % cols, k \div cols, targetWidth, s),
                      buf, targetWidth, scaledHeight, s)

\* 1. Find Bounding Box.  minX and minY start at targetWidth and
\* scaledHeight; they are only ever compared with whole x and y, for which
\* x < targetWidth is x < LoopCount(targetWidth), so the start value is held
\* as that whole number.
FindBoundingBox(buf, targetWidth, scaledHeight, s) ==
    ScanFrom(0,
             [minX |-> LoopCount(targetWidth), minY |-> LoopCount(scaledHeight),
              maxX |-> 0, maxY |-> 0, hasContent |-> FALSE],
             buf, targetWidth, scaledHeight, s)

ContentWidth(b)  == b.maxX - b.minX + 1
ContentHeight(b) == b.maxY - b.minY + 1

\* Mutant: the left margin is counted twice and the right one not at all.
FinalWidth_LeftTwice(b, s) == ContentWidth(b) + s.paddingLeft + s.paddingLeft

\* const finalWidth = contentWidth + paddingLeft + paddingRight
FinalWidth(b, s)  == ContentWidth(b) + s.paddingLeft + s.paddingRight

\* const finalHeight = contentHeight + paddingTop + paddingBottom
FinalHeight(b, s) == ContentHeight(b) + s.paddingTop + s.paddingBottom

\* Fill Background: fillRect with backgroundColor, or clearRect.
FillPixel(s) ==
    IF s.isTransparent THEN <<0, 0, 0, 0>>
    ELSE <<s.backgroundColor[1], s.backgroundColor[2], s.backgroundColor[3], 255>>

\* drawImage composites source-over.  Every pixel drawn here is opaque, or
\* is drawn onto a cleared (fully transparent) canvas, so the result is the
\* source pixel unless the source is fully transparent.
SourceOver(src, dst) == IF src[4] = 0 THEN dst ELSE src

\* A canvas of finalWidth x finalHeight, filled, then
\* drawImage(source, minX, minY, contentWidth, contentHeight,
\*           paddingLeft, paddingTop, contentWidth, contentHeight).
\* The part of the source rectangle that lies outside the source canvas
\* draws nothing.
CropAndPad(source, b, s) ==
    LET w == FinalWidth(b, s)
        h == FinalHeight(b, s)
    IN  [width  |-> w,
         height |-> h,
         data   |-> [p \in 1..(w * h) |->
                        LET dx == ((p - 1) % w) - s.paddingLeft
                            dy == ((p - 1) \div w) - s.paddingTop
                        IN  IF /\ dx >= 0 /\ dx < ContentWidth(b)
                               /\ dy >= 0 /\ dy < ContentHeight(b)
                               /\ InBuffer(source, b.minX + dx, b.minY + dy)
                            THEN SourceOver(Pixel(source, b.minX + dx, b.minY + dy),
                                            FillPixel(s))
                            ELSE FillPixel(s)]]

\* Mutant: the crop of the original is built without the right margin.
CropOriginal_NoRightMargin(scaled, b, s) ==
    CropAndPad(scaled, b, [s EXCEPT !.paddingRight = 0])

\* The Sync Crop of the original: drawn from scaledCanvas with the box found
\* on the processed canvas.
CropOriginal(scaled, b, s) == CropAndPad(scaled, b, s)

\* Mutant: the two canvases are returned in each other's place.
FullFrame_Swapped(work, scaled) == [processed |-> scaled, croppedOriginal |-> work]

\* Fallback if no content found, and No Auto Crop: the full canvases.
FullFrame(work, scaled) == [processed |-> work, croppedOriginal |-> scaled]

\* --- AUTO CROP & PADDING ---: the ProcessResult, given the box found.
Assemble(work, scaled, b, s) ==
    IF s.autoCrop /\ b.hasContent
    THEN [processed       |-> CropAndPad(work, b, s),
          croppedOriginal |-> CropOriginal(scaled, b, s)]
    ELSE FullFrame(work, scaled)

\* blurData: the red channel of the source drawn through blur(20 * scale px).
\* A blur is a weighted mean, so each value lies between the least and the
\* greatest red value of the image; the kernel is far wider than the images
\* enumerated here, so one level stands for the whole buffer.  The level is
\* one of: the least, the greatest, the mean red value.
RECURSIVE SumRed(_, _)
SumRed(data, k) == IF k = 0 THEN 0 ELSE data[k][1] + SumRed(data, k - 1)

RedValues(buf) == {buf.data[p][1] : p \in 1..Len(buf.data)}

BlurLevels(buf) ==
    LET reds == RedValues(buf)
        lo   == CHOOSE v \in reds : \A u \in reds : v <= u
        hi   == CHOOSE v \in reds : \A u \in reds : v >= u
    IN  {lo, hi, SumRed(buf.data, Len(buf.data)) \div Len(buf.data)}


-----------------------------------------------------------------------------
(* PipelineSpec: one invocation of processSingleImage, from img.onload     *)

MaxPixels == 4      \* source images have at most this many pixels
MaxPad    == 2      \* margins are 0 or MaxPad (the sliders reach PaddingMax)

Ink   == <<100, 100, 100, 255>>
Paper == <<255, 255, 255, 255>>

\* The source images: every width and height with at most MaxPixels pixels,
\* every pixel Ink or Paper.
Images ==
    UNION { UNION { { [width |-> w, height |-> h, data |-> d] :
                        d \in [1..(w * h) -> {Ink, Paper}] } :
                    h \in 1..(MaxPixels \div w) } :
            w \in 1..MaxPixels }

PadValues        == {PaddingMin, MaxPad}
ScaleValues      == ScaleMin..ScaleMax
Algorithms       == {"adaptive", "classic"}
ThresholdValues(algorithm) == {ThresholdMin(algorithm), ThresholdMax(algorithm)}
BoostValues      == {ContrastBoostMin, ContrastBoostMax}
SmoothnessValues == {SmoothnessMin, SmoothnessMax}
Backgrounds      == {White, Black}

\* The settings values enumerated.  Tonal: every algorithm, threshold,
\* contrastBoost, smoothness, background and scale, cropped with equal
\* margins.  Crop: every autoCrop, four independent margins, background and
\* scale, thresholded by the classic path at its default threshold.
TonalSettings ==
    { [DefaultSettings EXCEPT
         !.algorithm = a, !.threshold = t, !.contrastBoost = c, !.smoothness = m,
         !.scaleMultiplier = k, !.backgroundColor = bgc, !.isTransparent = tr,
         !.paddingTop = MaxPad, !.paddingRight = MaxPad,
         !.paddingBottom = MaxPad, !.paddingLeft = MaxPad] :
      a \in Algorithms, t \in UNION {ThresholdValues(x) : x \in Algorithms},
      c \in BoostValues, m \in SmoothnessValues, k \in ScaleValues,
      bgc \in Backgrounds, tr \in BOOLEAN }

CropSettings ==
    { [DefaultSettings EXCEPT
         !.algorithm = "classic", !.threshold = DefaultThresholdClassic,
         !.contrastBoost = ContrastBoostMin, !.smoothness = SmoothnessMin,
         !.scaleMultiplier = k, !.backgroundColor = bgc, !.isTransparent = tr,
         !.autoCrop = ac, !.paddingMode = "independent",
         !.paddingTop = pt, !.paddingRight = pr,
         !.paddingBottom = pb, !.paddingLeft = pl] :
      k \in ScaleValues, bgc \in Backgrounds, tr \in BOOLEAN, ac \in BOOLEAN,
      pt \in PadValues, pr \in PadValues, pb \in PadValues, pl \in PadValues }

\* Settings that differ only in a field the code never reads are enumerated
\* once: contrastBoost is read by the classic path only, backgroundColor only
\* when isTransparent is false, the margins only when autoCrop is true.
Relevant(s) ==
    /\ s.threshold >= ThresholdMin(s.algorithm)
    /\ s.threshold <= ThresholdMax(s.algorithm)
    /\ s.algorithm = "adaptive" => s.contrastBoost = ContrastBoostMin
    /\ s.isTransparent => s.backgroundColor = White
    /\ ~s.autoCrop => /\ s.paddingTop = s.paddingBottom
                      /\ s.paddingLeft = s.paddingRight
                      /\ s.paddingTop = s.paddingLeft

PipelineSettings == {s \in TonalSettings \cup CropSettings : Relevant(s)}

NoBox == [minX |-> 0, minY |-> 0, maxX |-> 0, maxY |-> 0, hasContent |-> FALSE]

PipelineIdle ==
    /\ img = Null /\ settings = Null /\ pc = "idle"
    /\ scaledCanvas = Null /\ canvas = Null /\ blurLevel = 0
    /\ box = NoBox /\ result = Null
    /\ call = Null /\ ret = Null

\* SheetMusicToolPro's initial useState values.
MergeDefaultThreshold     == 140
MergeDefaultContrastBoost == 20
MergeThresholdMax         == 220

MergeDefaults ==
    [threshold       |-> MergeDefaultThreshold,
     contrastBoost   |-> MergeDefaultContrastBoost,
     superResolution |-> FALSE]

\* The merge tool as mounted: no image, no result, nothing pending.
MergeIdle ==
    /\ images = <<>> /\ processedResult = Null /\ isProcessing = FALSE
    /\ mergeControls = MergeDefaults /\ processingTimeout = Null
    /\ mergeRuns = EmptyBag /\ nextImageId = 0

AppIdle ==
    /\ galleryItems = <<>> /\ selectedItem = Null
    /\ controls = DefaultSettings /\ settingsRef = DefaultSettings
    /\ timers = <<>> /\ jobs = EmptyBag /\ quiet = DebounceMs /\ nextId = 0
    /\ MergeIdle

\* img.onload has fired with a decoded image; nothing is drawn yet.
InitP ==
    /\ AppIdle
    /\ img \in Images
    /\ settings \in PipelineSettings
    /\ pc = "onload"
    /\ scaledCanvas = Null /\ canvas = Null /\ blurLevel = 0
    /\ box = NoBox /\ result = Null
    /\ call = Null /\ ret = Null

\* 1. Setup Scaled Canvas; 2. Create Working Canvas (clone of scaled).
Rescale ==
    /\ pc = "onload"
    /\ scaledCanvas' = DrawScaled(img, settings)
    /\ canvas' = DrawScaled(img, settings)
    /\ pc' = "scaled"
    /\ UNCHANGED <<img, settings, blurLevel, box, result>>
    /\ UNCHANGED <<appVars, callVars>>

\* Mutant: the thresholded data is put back on the scaled canvas as well.
Threshold_OnScaledCanvas ==
    /\ pc = "scaled"
    /\ \E bg \in (IF settings.algorithm = "adaptive" THEN BlurLevels(scaledCanvas) ELSE {0}) :
          /\ blurLevel' = bg
          /\ canvas' = ThresholdAll(canvas, bg, settings)
          /\ scaledCanvas' = ThresholdAll(canvas, bg, settings)
    /\ pc' = "composited"
    /\ UNCHANGED <<img, settings, box, result>>
    /\ UNCHANGED <<appVars, callVars>>

\* ALGORITHM IMPLEMENTATION: the background estimate (adaptive), the
\* thresholding loop and putImageData.
Threshold ==
    /\ pc = "scaled"
    /\ \E bg \in (IF settings.algorithm = "adaptive" THEN BlurLevels(scaledCanvas) ELSE {0}) :
          /\ blurLevel' = bg
          /\ canvas' = ThresholdAll(canvas, bg, settings)
    /\ pc' = "composited"
    /\ UNCHANGED <<img, settings, scaledCanvas, box, result>>
    /\ UNCHANGED <<appVars, callVars>>

\* Mutant: the crop reads the component's current control values instead of
\* the settings the invocation was given.
AutoCrop_ReadsControls ==
    /\ pc = "composited"
    /\ box' = IF controls.autoCrop
              THEN FindBoundingBox(canvas, TargetWidth(img, settings),
                                   ScaledHeight(img, settings), controls)
              ELSE NoBox
    /\ result' = Assemble(canvas, scaledCanvas, box', controls)
    /\ pc' = "done"
    /\ UNCHANGED <<img, settings, scaledCanvas, canvas, blurLevel>>
    /\ UNCHANGED <<appVars, callVars>>

\* AUTO CROP & PADDING, toDataURL and resolve.
AutoCrop ==
    /\ pc = "composited"
    /\ box' = IF settings.autoCrop
              THEN FindBoundingBox(canvas, TargetWidth(img, settings),
                                   ScaledHeight(img, settings), settings)
              ELSE NoBox
    /\ result' = Assemble(canvas, scaledCanvas, box', settings)
    /\ pc' = "done"
    /\ UNCHANGED <<img, settings, scaledCanvas, canvas, blurLevel>>
    /\ UNCHANGED <<appVars, callVars>>

NextP == Rescale \/ Threshold \/ AutoCrop

PipelineSpec == InitP /\ [][NextP]_vars

-----------------------------------------------------------------------------
(* OutOfRangeSpec: processSingleImage called with a settings value that    *)
(* leaves CONFIG.ranges in one field.                                      *)

\* s conforms to CONFIG.ranges.
InRange(s) ==
    /\ s.threshold >= ThresholdMin(s.algorithm) /\ s.threshold <= ThresholdMax(s.algorithm)
    /\ s.contrastBoost >= ContrastBoostMin /\ s.contrastBoost <= ContrastBoostMax
    /\ s.scaleMultiplier >= ScaleMin /\ s.scaleMultiplier <= ScaleMax
    /\ s.smoothness >= SmoothnessMin /\ s.smoothness <= SmoothnessMax
    /\ \A m \in {s.paddingTop, s.paddingRight, s.paddingBottom, s.paddingLeft} :
          m >= PaddingMin /\ m <= PaddingMax

\* CONFIG.defaults without margins.
NoMargins ==
    [DefaultSettings EXCEPT !.paddingTop = PaddingMin, !.paddingRight = PaddingMin,
                            !.paddingBottom = PaddingMin, !.paddingLeft = PaddingMin]

\* Settings one step outside a range, in one field at a time.
OutOfRangeSettings ==
    {[NoMargins EXCEPT !.algorithm = a, !.threshold = th] :
        a \in Algorithms, th \in {ThresholdAdaptiveMin - 1, ThresholdAdaptiveMax + 1,
                                  ThresholdClassicMin - 1, ThresholdClassicMax + 1}}
    \cup {[NoMargins EXCEPT !.algorithm = "classic", !.threshold = DefaultThresholdClassic,
                            !.contrastBoost = c] :
             c \in {ContrastBoostMin - 1, ContrastBoostMax + 1}}
    \cup {[NoMargins EXCEPT !.scaleMultiplier = k] : k \in {ScaleMin - 1, ScaleMax + 1}}
    \cup {[NoMargins EXCEPT !.smoothness = m] : m \in {SmoothnessMin - 1, SmoothnessMax + 1}}
    \cup {[NoMargins EXCEPT !.paddingLeft = m] : m \in {PaddingMin - 1, PaddingMax + 1}}

\* img.onload has fired; the settings are out of range.  A scale that makes
\* a canvas of width or height 0 is left out (getImageData throws there),
\* and the scaled canvas is no larger than the largest one of PipelineSpec
\* (MaxPixels pixels at CONFIG.ranges.scale.max).
InitO ==
    /\ AppIdle
    /\ img \in Images
    /\ settings \in {s \in OutOfRangeSettings : ~InRange(s)}
    /\ ToLong(TargetWidth(img, settings)) >= 1
    /\ ToLong(ScaledHeight(img, settings)) >= 1
    /\ 4 * LoopCount(TargetWidth(img, settings)) * LoopCount(ScaledHeight(img, settings))
          <= MaxPixels * ScaleMax * ScaleMax
    /\ pc = "onload"
    /\ scaledCanvas = Null /\ canvas = Null /\ blurLevel = 0
    /\ box = NoBox /\ result = Null
    /\ call = Null /\ ret = Null

OutOfRangeSpec == InitO /\ [][NextP]_vars

-----------------------------------------------------------------------------
(* ThresholderSpec: getSoftVal and the per-pixel step of the thresholding  *)
(* loop, each called once on arguments drawn from the values the loop can  *)
(* pass: every red byte, background estimates from black to white, local   *)
(* thresholds that are fractional or below 0, and every smoothness sampled.*)

MaxByte == 255       \* the largest value of a Uint8ClampedArray element

Bytes == 0..MaxByte

\* blurData[i]: background estimates sampled from black to white.
BlurSamples == {0, MaxByte \div 2, MaxByte}

\* Thresholds the slider of an algorithm can hold: both ends of its range,
\* their neighbours and the default.
ThresholdSamples(algorithm) ==
    {ThresholdMin(algorithm), ThresholdMin(algorithm) + 1, DefaultThreshold(algorithm),
     ThresholdMax(algorithm) - 1, ThresholdMax(algorithm)}

SmoothnessSamples == {SmoothnessMin, SmoothnessMin + 1, DefaultSmoothness, SmoothnessMax}

BoostSamples == {ContrastBoostMin, DefaultContrastBoost, ContrastBoostMax}

\* The thresh arguments getSoftVal receives (times 200): the fixed threshold
\* on the classic path, bgR_pixel - (100 - threshold) / 2 on the adaptive.
SoftThresholds ==
    {200 * th : th \in ThresholdSamples("classic")} \cup
    {200 * bg - 100 * (100 - th) : bg \in BlurSamples, th \in ThresholdSamples("adaptive")}

\* Calls getSoftVal(val, thresh, smooth), arguments times 200.
SoftCalls ==
    { [fn |-> "getSoftVal", val |-> 200 * v, thresh |-> th, smooth |-> 200 * m] :
      v \in Bytes, th \in SoftThresholds, m \in SmoothnessSamples }

\* The tonal settings of a per-pixel step.
ToneSettings ==
    { [DefaultSettings EXCEPT
         !.algorithm = a, !.threshold = th, !.contrastBoost = c, !.smoothness = m,
         !.isTransparent = tr] :
      a \in Algorithms, th \in UNION {ThresholdSamples(x) : x \in Algorithms},
      c \in BoostSamples, m \in SmoothnessSamples, tr \in BOOLEAN }

\* One pass of the loop body: red byte r, background estimate bg, settings s.
\* The classic path does not read bg.
PixelCalls ==
    { [fn |-> "pixel", r |-> v, bg |-> b, s |-> s] :
      v \in Bytes, b \in BlurSamples,
      s \in {x \in ToneSettings : x.threshold \in ThresholdSamples(x.algorithm)
                                  /\ (x.algorithm = "adaptive" => x.contrastBoost = ContrastBoostMin)} }

InitT ==
    /\ AppIdle
    /\ img = Null /\ settings = Null /\ pc = "idle"
    /\ scaledCanvas = Null /\ canvas = Null /\ blurLevel = 0
    /\ box = NoBox /\ result = Null
    /\ call \in SoftCalls \cup {c \in PixelCalls : c.s.algorithm = "classic" => c.bg = MaxByte}
    /\ ret = Null

\* const whiteness = getSoftVal(...)
CallSoftVal ==
    /\ call # Null /\ call.fn = "getSoftVal" /\ ret = Null
    /\ ret' = [whiteness |-> getSoftVal(call.val, call.thresh, call.smooth)]
    /\ UNCHANGED <<img, settings, pc, scaledCanvas, canvas, blurLevel, box, result, call>>
    /\ UNCHANGED appVars

\* One pass of the thresholding loop: the whiteness and the bytes stored.
ThresholdPixel ==
    /\ call # Null /\ call.fn = "pixel" /\ ret = Null
    /\ LET wh == Whiteness(call.r, call.bg, call.s)
       IN  ret' = [whiteness |-> wh, pixel |-> Composite(wh, call.s)]
    /\ UNCHANGED <<img, settings, pc, scaledCanvas, canvas, blurLevel, box, result, call>>
    /\ UNCHANGED appVars

NextT == CallSoftVal \/ ThresholdPixel

ThresholderSpec == InitT /\ [][NextT]_vars


-----------------------------------------------------------------------------
(* Spec: the App3 component                                                *)
(*                                                                         *)
(* A gallery item is [id, processedUrl, croppedOriginalUrl, status,        *)
(* settingsUsed]; its originalUrl is one blob URL per id and is stood for  *)
(* by the id (name and timestamp are never read by the logic).  Every      *)
(* action is one event handler or callback together with the render and    *)
(* the effects it triggers: React runs them before the next event.         *)

MaxItems == 2       \* gallery items created in one run
MaxJobs  == 2       \* processSingleImage promises in flight at once
TickMs   == 300     \* the step in which the model lets time pass

\* processSingleImage(originalUrl, settings) resolved: the two data URLs are
\* a function of the image and the settings, and are stood for by that pair.
ProcessResult(id, s) ==
    [processed       |-> [image |-> id, settings |-> s, output |-> "processed"],
     croppedOriginal |-> [image |-> id, settings |-> s, output |-> "croppedOriginal"]]

\* const isSame = ... : the thirteen comparisons of the auto-process effect.
IsSame(used, new) ==
    /\ used.algorithm = new.algorithm
    /\ used.threshold = new.threshold
    /\ used.contrastBoost = new.contrastBoost
    /\ used.scaleMultiplier = new.scaleMultiplier
    /\ used.smoothness = new.smoothness
    /\ used.autoCrop = new.autoCrop
    /\ used.paddingMode = new.paddingMode
    /\ used.paddingTop = new.paddingTop
    /\ used.paddingRight = new.paddingRight
    /\ used.paddingBottom = new.paddingBottom
    /\ used.paddingLeft = new.paddingLeft
    /\ used.backgroundColor = new.backgroundColor
    /\ used.isTransparent = new.isTransparent

\* A pending timeout is [id, settings, elapsed, ref]: the id of the
\* selectedItem its callback closes over (the callback reads its id and its
\* originalUrl only), the newSettings it closes over, the ms since
\* setTimeout, and whether processTimeoutRef.current holds its handle.

\* clearTimeout(processTimeoutRef.current)
ClearTimeout(ts) == SelectSeq(ts, LAMBDA tm : ~tm.ref)

\* processTimeoutRef.current = setTimeout(callback, 300)
SetTimeout(ts, sel, c) ==
    Append([k \in 1..Len(ts) |-> [ts[k] EXCEPT !.ref = FALSE]],
           [id |-> sel.id, settings |-> c, elapsed |-> 0, ref |-> TRUE])

\* Mutant: the effect neither returns a cleanup nor clears the pending
\* timeout before setting a new one.
AutoProcess_NoCancel(ts, sel, c) ==
    IF sel = Null THEN ts
    ELSE IF IsSame(sel.settingsUsed, c) THEN ts
    ELSE SetTimeout(ts, sel, c)

\* 2. Auto-process when settings change: one run of the effect in a render
\* whose selectedItem is sel and whose settings are c.  The cleanup of the
\* previous run comes first; it was registered by every run that set a
\* timeout, and clearing a timeout that has fired does nothing.
AutoProcess(ts, sel, c) ==
    LET cleaned == ClearTimeout(ts)
    IN  IF sel = Null THEN cleaned
        ELSE IF IsSame(sel.settingsUsed, c) THEN cleaned
        ELSE SetTimeout(ClearTimeout(cleaned), sel, c)

\* useEffect(..., [algorithm]): setThreshold(default of the algorithm).
\* Mutant: the effect on [algorithm] leaves the threshold as it is.
AlgorithmEffect_NoReset(c) == c

AlgorithmEffect(c) == [c EXCEPT !.threshold = DefaultThreshold(c.algorithm)]

\* The controls after the renders that follow a change from prev to new:
\* the algorithm effect runs when the algorithm changed.
SettledControls(prev, new) ==
    IF new.algorithm # prev.algorithm THEN AlgorithmEffect(new) ELSE new

\* The timeouts after those renders: the auto-process effect runs once per
\* render in which a setting changed.
SettledTimers(ts, sel, prev, new) ==
    IF new = prev THEN ts
    ELSE LET first == AutoProcess(ts, sel, new)
             final == SettledControls(prev, new)
         IN  IF final = new THEN first ELSE AutoProcess(first, sel, final)

\* A render with selectedItem sel in which the setters were called with new.
Render(sel, new) ==
    /\ controls' = SettledControls(controls, new)
    /\ settingsRef' = controls'
    /\ timers' = SettledTimers(timers, sel, controls, new)
    /\ quiet' = IF controls' = controls THEN quiet ELSE 0

\* 1. Sync sliders when switching images: the setters' arguments.
SyncSliders(sel, c) == IF sel # Null THEN sel.settingsUsed ELSE c

\* The values the model lets the sliders take.
AppThresholdValues(algorithm) ==
    IF algorithm = "adaptive"
    THEN {DefaultThresholdAdaptive, ThresholdAdaptiveMax}
    ELSE {DefaultThresholdClassic}

Init ==
    /\ AppIdle
    /\ PipelineIdle

\* onChange of the threshold slider: setThreshold(v), v within the slider's
\* min and max for the algorithm shown.  The other plain setters
\* (contrastBoost, scaleMultiplier, smoothness, autoCrop, the paddings, the
\* background) are in the same dependency lists and act alike.
ChangeThreshold ==
    /\ \E v \in AppThresholdValues(controls.algorithm) :
          /\ v # controls.threshold
          /\ Render(selectedItem, [controls EXCEPT !.threshold = v])
    /\ UNCHANGED <<galleryItems, selectedItem, jobs, nextId>>
    /\ UNCHANGED pipeVars

\* onClick of an algorithm button: setAlgorithm(a).
ChangeAlgorithm ==
    /\ \E a \in Algorithms :
          /\ a # controls.algorithm
          /\ Render(selectedItem, [controls EXCEPT !.algorithm = a])
    /\ UNCHANGED <<galleryItems, selectedItem, jobs, nextId>>
    /\ UNCHANGED pipeVars

NewItem(id, s) ==
    [id |-> id, processedUrl |-> Null, croppedOriginalUrl |-> Null,
     status |-> "processing", settingsUsed |-> s]

\* handleNewFiles(files), files.length = n > 0.
HandleNewFiles ==
    /\ \E n \in 1..MaxItems :
          /\ nextId + n <= MaxItems
          /\ BagCardinality(jobs) + n <= MaxJobs
          /\ LET newItems == [k \in 1..n |-> NewItem(nextId + k, settingsRef)]
             IN  /\ galleryItems' = newItems \o galleryItems
                 /\ selectedItem' = newItems[1]
                 /\ jobs' = jobs (+) SetToBag({ [kind |-> "ingest", id |-> newItems[k].id,
                                                  settings |-> newItems[k].settingsUsed] :
                                                 k \in 1..n })
                 /\ Render(newItems[1], SyncSliders(newItems[1], controls))
          /\ nextId' = nextId + n
    /\ UNCHANGED pipeVars

\* onClick of a gallery row: setSelectedItem(item).
SelectItem ==
    /\ \E k \in 1..Len(galleryItems) :
          LET item == galleryItems[k]
          IN  /\ selectedItem' = item
              /\ IF selectedItem = Null \/ selectedItem.id # item.id
                 THEN Render(item, SyncSliders(item, controls))
                 ELSE UNCHANGED <<controls, settingsRef, timers, quiet>>
    /\ UNCHANGED <<galleryItems, jobs, nextId>>
    /\ UNCHANGED pipeVars

\* deleteItem(id, e)
DeleteItem ==
    /\ \E k \in 1..Len(galleryItems) :
          LET id == galleryItems[k].id
          IN  /\ galleryItems' = SelectSeq(galleryItems, LAMBDA i : i.id # id)
              /\ selectedItem' = IF selectedItem # Null /\ selectedItem.id = id
                                 THEN Null ELSE selectedItem
    /\ UNCHANGED <<controls, settingsRef, timers, jobs, quiet, nextId>>
    /\ UNCHANGED pipeVars

\* onClick of the clear-history button: setGalleryItems([]).
ClearHistory ==
    /\ Len(galleryItems) > 0
    /\ galleryItems' = <<>>
    /\ UNCHANGED <<selectedItem, controls, settingsRef, timers, jobs, quiet, nextId>>
    /\ UNCHANGED pipeVars

\* Time passes.  Beyond DebounceMs the clocks are not counted further.
Tick ==
    /\ quiet < DebounceMs \/ \E k \in 1..Len(timers) : timers[k].elapsed < DebounceMs
    /\ quiet' = Min(quiet + TickMs, DebounceMs)
    /\ timers' = [k \in 1..Len(timers) |->
                    [timers[k] EXCEPT !.elapsed = Min(@ + TickMs, DebounceMs)]]
    /\ UNCHANGED <<galleryItems, selectedItem, controls, settingsRef, jobs, nextId>>
    /\ UNCHANGED pipeVars

RemoveAt(s, k) == SubSeq(s, 1, k - 1) \o SubSeq(s, k + 1, Len(s))

\* The timeout callback starts: processSingleImage(selectedItem.originalUrl,
\* newSettings) is called and awaited.
TimerFire(k) ==
    /\ k \in 1..Len(timers)
    /\ timers[k].elapsed >= DebounceMs
    /\ BagCardinality(jobs) < MaxJobs
    /\ jobs' = jobs (+) SetToBag({[kind |-> "live", id |-> timers[k].id,
                                   settings |-> timers[k].settings]})
    /\ timers' = RemoveAt(timers, k)
    /\ UNCHANGED <<galleryItems, selectedItem, controls, settingsRef, quiet, nextId>>
    /\ UNCHANGED pipeVars

\* Mutant: the callback writes to the item selected when it completes, not
\* to the item its closure holds.
LiveResolved_CurrentSelection(job) ==
    LET r == ProcessResult(job.id, job.settings)
    IN  /\ selectedItem' =
              IF selectedItem = Null
              THEN selectedItem
              ELSE [selectedItem EXCEPT !.processedUrl = r.processed,
                                        !.croppedOriginalUrl = r.croppedOriginal,
                                        !.settingsUsed = job.settings,
                                        !.status = "done"]
        /\ galleryItems' =
              [i \in 1..Len(galleryItems) |->
                  IF selectedItem # Null /\ galleryItems[i].id = selectedItem.id
                  THEN [galleryItems[i] EXCEPT !.processedUrl = r.processed,
                                               !.croppedOriginalUrl = r.croppedOriginal,
                                               !.settingsUsed = job.settings,
                                               !.status = "done"]
                  ELSE galleryItems[i]]

\* The try branch of the live-preview callback, after the await.
LiveResolved(job) ==
    LET r == ProcessResult(job.id, job.settings)
    IN  /\ selectedItem' =
              IF selectedItem = Null \/ selectedItem.id # job.id
              THEN selectedItem
              ELSE [selectedItem EXCEPT !.processedUrl = r.processed,
                                        !.croppedOriginalUrl = r.croppedOriginal,
                                        !.settingsUsed = job.settings,
                                        !.status = "done"]
        /\ galleryItems' =
              [i \in 1..Len(galleryItems) |->
                  IF galleryItems[i].id = job.id
                  THEN [galleryItems[i] EXCEPT !.processedUrl = r.processed,
                                               !.croppedOriginalUrl = r.croppedOriginal,
                                               !.settingsUsed = job.settings,
                                               !.status = "done"]
                  ELSE galleryItems[i]]

\* Mutant: the completion puts the finished item back into the gallery when
\* no record has its id.
IngestResolved_Upsert(job) ==
    LET r    == ProcessResult(job.id, job.settings)
        done == [NewItem(job.id, job.settings) EXCEPT
                                    !.processedUrl = r.processed,
                                    !.croppedOriginalUrl = r.croppedOriginal,
                                    !.status = "done"]
    IN  /\ galleryItems' =
              IF \E i \in 1..Len(galleryItems) : galleryItems[i].id = job.id
              THEN [i \in 1..Len(galleryItems) |->
                      IF galleryItems[i].id = job.id
                      THEN [galleryItems[i] EXCEPT !.processedUrl = r.processed,
                                                   !.croppedOriginalUrl = r.croppedOriginal,
                                                   !.status = "done"]
                      ELSE galleryItems[i]]
              ELSE <<done>> \o galleryItems
        /\ selectedItem' =
              IF selectedItem # Null /\ selectedItem.id = job.id THEN done ELSE selectedItem

\* The try branch of handleNewFiles' forEach callback, after the await.
\* The item the callback closes over is the record made at ingestion,
\* NewItem(id, settings).
IngestResolved(job) ==
    LET r == ProcessResult(job.id, job.settings)
    IN  /\ galleryItems' =
              [i \in 1..Len(galleryItems) |->
                  IF galleryItems[i].id = job.id
                  THEN [galleryItems[i] EXCEPT !.processedUrl = r.processed,
                                               !.croppedOriginalUrl = r.croppedOriginal,
                                               !.status = "done"]
                  ELSE galleryItems[i]]
        /\ selectedItem' =
              IF selectedItem # Null /\ selectedItem.id = job.id
              THEN [NewItem(job.id, job.settings) EXCEPT
                                    !.processedUrl = r.processed,
                                    !.croppedOriginalUrl = r.croppedOriginal,
                                    !.status = "done"]
              ELSE selectedItem

\* Mutant: the catch branch marks every gallery item, not only its own.
IngestRejected_AllItems(job) ==
    /\ galleryItems' =
          [i \in 1..Len(galleryItems) |-> [galleryItems[i] EXCEPT !.status = "error"]]
    /\ UNCHANGED selectedItem

\* The catch branch of handleNewFiles' forEach callback.
IngestRejected(job) ==
    /\ galleryItems' =
          [i \in 1..Len(galleryItems) |->
              IF galleryItems[i].id = job.id
              THEN [galleryItems[i] EXCEPT !.status = "error"]
              ELSE galleryItems[i]]
    /\ UNCHANGED selectedItem

\* Mutant: the catch branch marks the item as failed, as the ingestion's does.
LiveRejected_MarksError(job) ==
    /\ galleryItems' =
          [i \in 1..Len(galleryItems) |->
              IF galleryItems[i].id = job.id
              THEN [galleryItems[i] EXCEPT !.status = "error"]
              ELSE galleryItems[i]]
    /\ UNCHANGED selectedItem

\* The catch branch of the live-preview callback: console.error only.
LiveRejected(job) == UNCHANGED <<galleryItems, selectedItem>>

\* A processSingleImage promise resolves (img.onload ran the pipeline).
JobResolve(job) ==
    /\ BagIn(job, jobs)
    /\ IF job.kind = "live" THEN LiveResolved(job) ELSE IngestResolved(job)
    /\ jobs' = jobs (-) SetToBag({job})
    /\ UNCHANGED <<controls, settingsRef, timers, quiet, nextId>>
    /\ UNCHANGED pipeVars

\* A processSingleImage promise rejects (img.onerror, or a throw in onload).
JobReject(job) ==
    /\ BagIn(job, jobs)
    /\ IF job.kind = "live" THEN LiveRejected(job) ELSE IngestRejected(job)
    /\ jobs' = jobs (-) SetToBag({job})
    /\ UNCHANGED <<controls, settingsRef, timers, quiet, nextId>>
    /\ UNCHANGED pipeVars

Next ==
    \/ ChangeThreshold
    \/ ChangeAlgorithm
    \/ HandleNewFiles
    \/ SelectItem
    \/ DeleteItem
    \/ ClearHistory
    \/ Tick
    \/ \E k \in 1..Len(timers) : TimerFire(k)
    \/ \E job \in BagToSet(jobs) : JobResolve(job)
    \/ \E job \in BagToSet(jobs) : JobReject(job)

Spec == Init /\ [][Next]_vars

-----------------------------------------------------------------------------
(* Properties of App3 (Spec)                                               *)

\* A live-preview computation has just been launched for this job.
Launched(job) == job.kind = "live" /\ CopiesIn(job, jobs') > CopiesIn(job, jobs)

\* C1: a completed live-preview computation is written into the selected
\* item only if its settings are still the latest requested for it (the
\* values the controls hold); if the settings changed after its launch, its
\* result is discarded.
C1_StaleResultDiscarded ==
    [][\A job \in BagToSet(jobs) :
          (/\ job.kind = "live"
           /\ JobResolve(job)
           /\ selectedItem # Null
           /\ selectedItem.id = job.id
           /\ ~IsSame(job.settings, controls))
          => UNCHANGED <<galleryItems, selectedItem>>]_vars

\* C2 as stated: at most one timeout is pending; a computation is launched
\* only 300 ms or more after the last settings change and carries the
\* settings the controls hold; every settings change cancels the pending
\* timeout, and with an item selected it leaves one pending, so that a burst
\* of changes launches exactly one computation.
C2_BurstLaunchesExactlyOne ==
    /\ [](Len(timers) <= 1)
    /\ [][\A job \in BagToSet(jobs') :
             Launched(job) => quiet >= DebounceMs /\ IsSame(job.settings, controls)]_vars
    /\ [][controls' # controls =>
             /\ \A k \in 1..Len(timers') : timers'[k].elapsed = 0
             /\ selectedItem' # Null => Len(timers') = 1]_vars

\* C2 amended: at most one timeout is pending; a computation is launched
\* only 300 ms or more after the last settings change and carries the
\* settings the controls hold; every settings change cancels the pending
\* timeout and leaves a new one, for the changed settings, exactly when an
\* item is selected and the changed settings differ from its settingsUsed.
\* A burst thus launches at most one computation, and none when it ends on
\* the settings the item already has.
C2_Debounce ==
    /\ [](Len(timers) <= 1)
    /\ [][\A job \in BagToSet(jobs') :
             Launched(job) => /\ quiet >= DebounceMs
                              /\ IsSame(job.settings, controls)
                              /\ timers' = <<>>]_vars
    /\ [][controls' # controls =>
             /\ \A k \in 1..Len(timers') :
                   /\ timers'[k].elapsed = 0
                   /\ IsSame(timers'[k].settings, controls')
                   /\ timers'[k].id = selectedItem'.id
             /\ Len(timers') = 1 <=>
                   (selectedItem' # Null /\ ~IsSame(selectedItem'.settingsUsed, controls'))]_vars

\* C2 witness: a computation launched after a burst (an algorithm switch and
\* the threshold reset that follows it) is in flight for the selected item,
\* with the controls' settings, and no timeout is pending.
C2_Witness ==
    /\ selectedItem # Null
    /\ timers = <<>>
    /\ quiet >= DebounceMs
    /\ \E job \in BagToSet(jobs) :
          /\ job.kind = "live"
          /\ job.id = selectedItem.id
          /\ IsSame(job.settings, controls)
          /\ job.settings.algorithm # selectedItem.settingsUsed.algorithm
          /\ job.settings.threshold # selectedItem.settingsUsed.threshold

\* processedUrl, croppedOriginalUrl and settingsUsed of an item come from
\* one run of processSingleImage, or no run has completed.
Coherent(item) ==
    \/ item.processedUrl = Null /\ item.croppedOriginalUrl = Null
    \/ /\ item.processedUrl = ProcessResult(item.id, item.settingsUsed).processed
       /\ item.croppedOriginalUrl = ProcessResult(item.id, item.settingsUsed).croppedOriginal

\* C3: in every reachable state every gallery item and the selected item
\* hold a processedUrl, croppedOriginalUrl and settingsUsed of one and the
\* same completed run (or both URLs are still null).
C3_NoTornState ==
    /\ \A i \in 1..Len(galleryItems) : Coherent(galleryItems[i])
    /\ selectedItem # Null => Coherent(selectedItem)

-----------------------------------------------------------------------------
(* Properties of processSingleImage (PipelineSpec)                         *)

Done == pc = "done"

FractionalSize == (TargetWidth(img, settings) % 2 = 1) \/ (ScaledHeight(img, settings) % 2 = 1)

\* C4: the two outputs of processSingleImage have identical width and
\* identical height, on the auto-crop path, the no-content fallback path and
\* the autoCrop = false path.
C4_SameDimensions ==
    Done => /\ result.processed.width  = result.croppedOriginal.width
            /\ result.processed.height = result.croppedOriginal.height
            /\ Len(result.processed.data) = Len(result.croppedOriginal.data)

\* C4 witness: the auto-crop path has run and produced outputs whose size
\* differs from the rescaled frame.
C4_Witness ==
    /\ Done /\ settings.autoCrop /\ box.hasContent
    /\ result.processed.width # scaledCanvas.width
    /\ result.processed.height # scaledCanvas.height
    /\ settings.paddingLeft # settings.paddingRight

\* C5 as stated: with autoCrop = false both outputs are
\* round(origW*scale) x round(origH*scale)  (round = Math.round, halves up).
C5_RoundedDimensions ==
    (Done /\ ~settings.autoCrop) =>
        /\ result.processed.width  = (img.width  * settings.scaleMultiplier + 1) \div 2
        /\ result.processed.height = (img.height * settings.scaleMultiplier + 1) \div 2
        /\ result.croppedOriginal.width  = (img.width  * settings.scaleMultiplier + 1) \div 2
        /\ result.croppedOriginal.height = (img.height * settings.scaleMultiplier + 1) \div 2

\* C5 amended: with autoCrop = false both outputs are
\* floor(origW*scale) x floor(origH*scale); scaleMultiplier = 1.0 yields the
\* unscaled dimensions.
C5_FloorDimensions ==
    (Done /\ ~settings.autoCrop) =>
        /\ result.processed.width  = (img.width  * settings.scaleMultiplier) \div 2
        /\ result.processed.height = (img.height * settings.scaleMultiplier) \div 2
        /\ result.croppedOriginal.width  = (img.width  * settings.scaleMultiplier) \div 2
        /\ result.croppedOriginal.height = (img.height * settings.scaleMultiplier) \div 2
        /\ settings.scaleMultiplier = ScaleMin =>
              /\ result.processed.width = img.width
              /\ result.processed.height = img.height

\* C5 witness: autoCrop = false and origW*scale is not a whole number.
C5_Witness ==
    /\ Done /\ ~settings.autoCrop
    /\ TargetWidth(img, settings) % 2 = 1
    /\ ScaledHeight(img, settings) % 2 = 1

\* C6: with autoCrop = true and content found, both outputs have width
\* (maxX-minX+1) + paddingLeft + paddingRight and height
\* (maxY-minY+1) + paddingTop + paddingBottom.
C6_CroppedDimensions ==
    (Done /\ settings.autoCrop /\ box.hasContent) =>
        LET w == (box.maxX - box.minX + 1) + settings.paddingLeft + settings.paddingRight
            h == (box.maxY - box.minY + 1) + settings.paddingTop + settings.paddingBottom
        IN  /\ result.processed.width = w
            /\ result.processed.height = h
            /\ result.croppedOriginal.width = w
            /\ result.croppedOriginal.height = h
            /\ Len(result.processed.data) = w * h
            /\ Len(result.croppedOriginal.data) = w * h

\* C6 witness: content was found and the four margins are not all equal.
C6_Witness ==
    /\ Done /\ settings.autoCrop /\ box.hasContent
    /\ box.maxX > box.minX
    /\ settings.paddingLeft # settings.paddingRight
    /\ settings.paddingTop # settings.paddingBottom
    /\ settings.paddingLeft # settings.paddingTop

\* C7: with autoCrop = true and no pixel classified as content, the result
\* is the full composited buffer and the full rescaled original, with the
\* rescaled dimensions, not empty and with no padding added.
C7_NoContentFallback ==
    (Done /\ settings.autoCrop /\ ~box.hasContent) =>
        /\ result.processed = canvas
        /\ result.croppedOriginal = scaledCanvas
        /\ result.processed.width  = (img.width  * settings.scaleMultiplier) \div 2
        /\ result.processed.height = (img.height * settings.scaleMultiplier) \div 2
        /\ result.croppedOriginal.width  = result.processed.width
        /\ result.croppedOriginal.height = result.processed.height
        /\ result.processed.width >= 1 /\ result.processed.height >= 1
        /\ Len(result.processed.data) = result.processed.width * result.processed.height
        /\ Len(result.croppedOriginal.data) = result.processed.width * result.processed.height

\* C7 witness: an image with ink in it, no content found, margins requested.
C7_Witness ==
    /\ Done /\ settings.autoCrop /\ ~box.hasContent
    /\ settings.paddingLeft > 0
    /\ \E p \in 1..Len(img.data) : img.data[p] = Ink
    /\ canvas # scaledCanvas

UniformWhite == \A p \in 1..Len(img.data) : img.data[p] = Paper

\* C8: for a uniform white source and autoCrop = true, whatever the settings
\* within their ranges, no pixel is classified as content and the fallback
\* returns the full rescaled frame unchanged in size.
C8_WhiteNeverContent ==
    (Done /\ settings.autoCrop /\ UniformWhite) =>
        /\ ~box.hasContent
        /\ result.processed.width  = scaledCanvas.width
        /\ result.processed.height = scaledCanvas.height

\* The content pixels of the composited buffer, by the documented test.
ContentPixels ==
    { xy \in (0..(canvas.width - 1)) \X (0..(canvas.height - 1)) :
        LET px == Pixel(canvas, xy[1], xy[2])
            bg == BgColor(settings)
        IN  IF settings.isTransparent
            THEN px[4] > 10
            ELSE Abs(px[1] - bg[1]) + Abs(px[2] - bg[2]) + Abs(px[3] - bg[3]) > 30 }

\* C9: with autoCrop on, (minX, minY, maxX, maxY) is the tightest box over
\* the content pixels of the composited buffer, inside the buffer, and
\* hasContent is false iff no pixel qualifies, also when width*scale or
\* height*scale is not a whole number.
C9_TightestBox ==
    (Done /\ settings.autoCrop) =>
        /\ box.hasContent <=> ContentPixels # {}
        /\ box.hasContent =>
              /\ 0 <= box.minX /\ box.minX <= box.maxX /\ box.maxX < canvas.width
              /\ 0 <= box.minY /\ box.minY <= box.maxY /\ box.maxY < canvas.height
              /\ \A xy \in ContentPixels :
                    /\ box.minX <= xy[1] /\ xy[1] <= box.maxX
                    /\ box.minY <= xy[2] /\ xy[2] <= box.maxY
              /\ \E xy \in ContentPixels : xy[1] = box.minX
              /\ \E xy \in ContentPixels : xy[1] = box.maxX
              /\ \E xy \in ContentPixels : xy[2] = box.minY
              /\ \E xy \in ContentPixels : xy[2] = box.maxY

\* C10: for every dx in 0..contentW-1 and dy in 0..contentH-1 the pixel at
\* (paddingLeft+dx, paddingTop+dy) of processed is the composited pixel
\* (minX+dx, minY+dy) and that of croppedOriginal is the rescaled-original
\* pixel (minX+dx, minY+dy); every other pixel of both outputs is the
\* padding fill.
C10_SynchronizedCrop ==
    (Done /\ settings.autoCrop /\ box.hasContent) =>
        \A x \in 0..(result.processed.width - 1), y \in 0..(result.processed.height - 1) :
            LET dx == x - settings.paddingLeft
                dy == y - settings.paddingTop
                fill == IF settings.isTransparent THEN <<0, 0, 0, 0>>
                        ELSE <<settings.backgroundColor[1], settings.backgroundColor[2],
                               settings.backgroundColor[3], 255>>
            IN  IF /\ dx >= 0 /\ dx <= box.maxX - box.minX
                   /\ dy >= 0 /\ dy <= box.maxY - box.minY
                THEN /\ InBuffer(canvas, box.minX + dx, box.minY + dy)
                     /\ Pixel(result.processed, x, y) = Pixel(canvas, box.minX + dx, box.minY + dy)
                     /\ Pixel(result.croppedOriginal, x, y)
                           = Pixel(scaledCanvas, box.minX + dx, box.minY + dy)
                ELSE /\ Pixel(result.processed, x, y) = fill
                     /\ Pixel(result.croppedOriginal, x, y) = fill


-----------------------------------------------------------------------------
(* Properties of the thresholder (ThresholderSpec)                         *)

\* A pass of the thresholding loop, or a call of getSoftVal, has returned.
PixelDone == call # Null /\ call.fn = "pixel" /\ ret # Null
SoftDone  == call # Null /\ call.fn = "getSoftVal" /\ ret # Null

RECURSIVE GCD(_, _)
GCD(a, b) == IF b = 0 THEN a ELSE GCD(b, a % b)

\* Whiteness values are fractions n/d with d > 0; they are compared over
\* their common denominator.
FracLe(a, b) == LET g == GCD(a.d, b.d) IN a.n * (b.d \div g) <= b.n * (a.d \div g)
FracEq(a, b) == LET g == GCD(a.d, b.d) IN a.n * (b.d \div g) = b.n * (a.d \div g)

\* The adaptive local threshold of a pixel call, times 200.
LocalThreshold200(c) == 200 * c.bg - 100 * (100 - c.s.threshold)

\* C11: when smoothness = 0 the whiteness computed for a pixel is exactly 0
\* or exactly 255, on the classic and on the adaptive path, also when the
\* adaptive local threshold is fractional or outside 0..255.
C11_HardStep ==
    (PixelDone /\ call.s.smoothness = 0) =>
        \/ ret.whiteness.n = 0
        \/ ret.whiteness.n = 255 * ret.whiteness.d

\* C11 witness: an adaptive pass with smoothness 0 whose local threshold is
\* fractional and below 0 has returned.
C11_Witness ==
    /\ PixelDone /\ call.s.smoothness = 0 /\ call.s.algorithm = "adaptive"
    /\ LocalThreshold200(call) < 0
    /\ LocalThreshold200(call) % 200 # 0


\* What C12 says of getSoftVal apart from its value below the band:
\* non-decreasing in val, within [0, 255], 255 for val >= t + smooth, and for
\* smooth > 0 equal to 255*(val - (t - smooth))/(2*smooth) inside the band.
SoftValShape ==
    /\ \A v \in Bytes :
          200 * v <= call.val =>
              FracLe(getSoftVal(200 * v, call.thresh, call.smooth), ret.whiteness)
    /\ 0 <= ret.whiteness.n /\ ret.whiteness.n <= 255 * ret.whiteness.d
    /\ call.val >= call.thresh + call.smooth => ret.whiteness.n = 255 * ret.whiteness.d
    /\ (/\ call.smooth > 0
        /\ call.val >= call.thresh - call.smooth
        /\ call.val <= call.thresh + call.smooth) =>
          FracEq(ret.whiteness,
                 [n |-> 255 * (call.val - (call.thresh - call.smooth)), d |-> 2 * call.smooth])

\* C12 as stated: getSoftVal is non-decreasing in val, stays in [0, 255],
\* returns 0 for val <= t - smooth and 255 for val >= t + smooth for every
\* smooth in 0..20, and is linear inside the band for smooth > 0.
C12_SoftValAsStated ==
    SoftDone =>
        /\ SoftValShape
        /\ call.val <= call.thresh - call.smooth => ret.whiteness.n = 0

\* C12 amended: getSoftVal is non-decreasing in val, stays in [0, 255],
\* returns 255 for val >= t + smooth, returns 0 for val <= t - smooth when
\* smooth > 0 and for val < t when smooth = 0 (at val = t with smooth = 0 it
\* returns 255), and is linear inside the band for smooth > 0.
C12_SoftVal ==
    SoftDone =>
        /\ SoftValShape
        /\ (call.smooth > 0 /\ call.val <= call.thresh - call.smooth) => ret.whiteness.n = 0
        /\ (call.smooth = 0 /\ call.val < call.thresh) => ret.whiteness.n = 0
        /\ (call.smooth = 0 /\ call.val = call.thresh) => ret.whiteness.n = 255 * ret.whiteness.d

\* C12 witness: a call with smooth > 0 and val strictly inside the band has
\* returned a value strictly between 0 and 255.
C12_Witness ==
    /\ SoftDone /\ call.smooth > 0
    /\ call.val > call.thresh - call.smooth /\ call.val < call.thresh + call.smooth
    /\ ret.whiteness.n > 0 /\ ret.whiteness.n < 255 * ret.whiteness.d


-----------------------------------------------------------------------------
(* Further properties of processSingleImage (PipelineSpec)                 *)

\* Position p of the processed output lies outside the rectangle the crop
\* is drawn into.
InPadding(p) ==
    LET x == (p - 1) % result.processed.width
        y == (p - 1) \div result.processed.width
    IN  \/ x < settings.paddingLeft
        \/ x >= settings.paddingLeft + ContentWidth(box)
        \/ y < settings.paddingTop
        \/ y >= settings.paddingTop + ContentHeight(box)

\* C13: in transparent mode every composited pixel is (0, 0, 0, a) with
\* a = 255 - whiteness (as stored in a byte); every pixel of the processed
\* output is such a pixel or padding, has RGB = (0, 0, 0), and the padding
\* added by auto-crop is (0, 0, 0, 0); with smoothness 0 every pixel is
\* (0, 0, 0, 255) or (0, 0, 0, 0).  Both algorithm paths.
C13_TransparentOutput ==
    (Done /\ settings.isTransparent) =>
        /\ \A p \in 1..Len(canvas.data) :
              LET wh == Whiteness(scaledCanvas.data[p][1], blurLevel, settings)
              IN  canvas.data[p] = <<0, 0, 0, ToUint8Clamped(255 * wh.d - wh.n, wh.d)>>
        /\ \A p \in 1..Len(result.processed.data) :
              LET px == result.processed.data[p]
              IN  /\ px[1] = 0 /\ px[2] = 0 /\ px[3] = 0
                  /\ \/ px = <<0, 0, 0, 0>>
                     \/ \E q \in 1..Len(canvas.data) : px = canvas.data[q]
                  /\ settings.smoothness = 0 => px[4] \in {0, 255}
                  /\ (settings.autoCrop /\ box.hasContent /\ InPadding(p)) => px = <<0, 0, 0, 0>>

\* C13 witness: a transparent run, cropped with margins, whose composited
\* buffer holds a partly transparent pixel and whose output holds it too.
C13_Witness ==
    /\ Done /\ settings.isTransparent /\ settings.autoCrop /\ box.hasContent
    /\ settings.paddingLeft > 0
    /\ \E p \in 1..Len(result.processed.data) :
          result.processed.data[p][4] > 0 /\ result.processed.data[p][4] < 255
    /\ \E p \in 1..Len(img.data) : img.data[p] = Ink


-----------------------------------------------------------------------------
(* Further properties of the thresholder (ThresholderSpec)                 *)

\* S(value, t, smooth) as documented: the hard step for smooth = 0, else
\* the ramp 255*(value - (t - smooth))/(2*smooth) clamped to [0, 255].
\* Arguments times 200, value returned as a fraction.
SoftThresholdS(value, t, smooth) ==
    IF smooth = 0
    THEN IF value < t THEN [n |-> 0, d |-> 1] ELSE [n |-> 255, d |-> 1]
    ELSE LET n == 255 * (value - (t - smooth))
             d == 2 * smooth
         IN  IF n <= 0 THEN [n |-> 0, d |-> 1]
             ELSE IF n >= 255 * d THEN [n |-> 255, d |-> 1]
             ELSE [n |-> n, d |-> d]

\* C14: on the classic path the whiteness of a pixel with red value v is
\* S(v', threshold, smoothness), v' = v*(1 - contrastBoost/100) if
\* v < threshold + 40 and v' = v otherwise; with contrastBoost = 0,
\* smoothness = 0 and an opaque white background a pixel with v < threshold
\* becomes (0,0,0,255) and one with v >= threshold (255,255,255,255).
C14_ClassicPath ==
    (PixelDone /\ call.s.algorithm = "classic") =>
        LET v  == call.r
            s  == call.s
            v1 == IF v < s.threshold + 40 THEN 2 * v * (100 - s.contrastBoost) ELSE 200 * v
        IN  /\ FracEq(ret.whiteness, SoftThresholdS(v1, 200 * s.threshold, 200 * s.smoothness))
            /\ (/\ s.contrastBoost = 0 /\ s.smoothness = 0
                /\ ~s.isTransparent /\ s.backgroundColor = White) =>
                  ret.pixel = IF v < s.threshold THEN <<0, 0, 0, 255>>
                              ELSE <<255, 255, 255, 255>>

\* C14 witness: a classic pass on a pixel at or above the threshold and
\* below threshold + 40, which the ink boost has turned into ink.
C14_Witness ==
    /\ PixelDone /\ call.s.algorithm = "classic"
    /\ call.s.contrastBoost > 0
    /\ call.r >= call.s.threshold /\ call.r < call.s.threshold + 40
    /\ ret.whiteness.n = 0


\* The whiteness the same pixel gets with the threshold set to th.
WhitenessAt(th) == Whiteness(call.r, call.bg, [call.s EXCEPT !.threshold = th])

\* C15 as stated: for every red value, background estimate and smoothness,
\* the whiteness obtained at the minimum threshold is <= the whiteness
\* obtained at the maximum threshold (minimum: toward all-ink; maximum:
\* toward all-background), classic (50 vs 220) and adaptive (0 vs 100).
C15_MinInkMaxBackground ==
    (PixelDone /\ call.s.threshold = ThresholdMax(call.s.algorithm)) =>
        FracLe(WhitenessAt(ThresholdMin(call.s.algorithm)), ret.whiteness)

\* C15 amended: the order is the opposite one.  For every red value,
\* background estimate, smoothness and contrastBoost the whiteness never
\* rises when the threshold is raised; the whiteness at the minimum
\* threshold is >= the whiteness at the maximum threshold (minimum: toward
\* all-background; maximum: toward all-ink), classic and adaptive.
C15_MinBackgroundMaxInk ==
    PixelDone =>
        \A th \in ThresholdSamples(call.s.algorithm) :
            th <= call.s.threshold => FracLe(ret.whiteness, WhitenessAt(th))

\* C15 witness: a pass at the maximum threshold has made ink of a pixel
\* that is background at the minimum threshold.
C15_Witness ==
    /\ PixelDone /\ call.s.threshold = ThresholdMax(call.s.algorithm)
    /\ call.s.algorithm = "adaptive"
    /\ ret.whiteness.n = 0
    /\ WhitenessAt(ThresholdMin(call.s.algorithm)).n = 255


-----------------------------------------------------------------------------
(* Determinism of processSingleImage (PipelineSpec)                        *)

\* processSingleImage as a function of the source image, the settings and
\* the background estimate the blur filter yields for that image.
RunPipeline(image, s, bg) ==
    LET scaled == DrawScaled(image, s)
        work   == ThresholdAll(scaled, bg, s)
        b      == IF s.autoCrop
                  THEN FindBoundingBox(work, TargetWidth(image, s), ScaledHeight(image, s), s)
                  ELSE NoBox
    IN  Assemble(work, scaled, b, s)

-----------------------------------------------------------------------------
(* Out-of-range settings (OutOfRangeSpec)                                  *)

\* C17: a settings value outside the documented ranges is rejected before
\* any pipeline step runs: no canvas is drawn, nothing is thresholded and
\* no result is resolved for it.
C17_InvalidSettingsRejected ==
    (settings # Null /\ ~InRange(settings)) =>
        /\ pc \in {"onload", "rejected"}
        /\ scaledCanvas = Null /\ canvas = Null /\ result = Null


-----------------------------------------------------------------------------
(* Failures and settings ranges in App3 (Spec)                             *)

\* C18: when the processing of an ingested item fails, only that item's
\* gallery record changes, and only its status, to 'error'; every other
\* item's status, processedUrl, croppedOriginalUrl and settingsUsed are
\* unchanged, whether it is still processing or done; a selected item that
\* is another item is unchanged; the other jobs stay in flight (and the
\* pending timeout stays) to complete normally.
C18_FailureIsolated ==
    [][\A job \in BagToSet(jobs) :
          (job.kind = "ingest" /\ JobReject(job)) =>
              /\ Len(galleryItems') = Len(galleryItems)
              /\ \A i \in 1..Len(galleryItems) :
                    galleryItems'[i] =
                        IF galleryItems[i].id = job.id
                        THEN [galleryItems[i] EXCEPT !.status = "error"]
                        ELSE galleryItems[i]
              /\ (selectedItem # Null /\ selectedItem.id # job.id) =>
                    selectedItem' = selectedItem
              /\ \A other \in BagToSet(jobs) :
                    other # job => CopiesIn(other, jobs') = CopiesIn(other, jobs)
              /\ timers' = timers]_vars

\* C18 witness: of two items ingested together one has failed and the other
\* one has completed, with the outputs of its own run.
C18_Witness ==
    /\ Len(galleryItems) = 2
    /\ \E i, j \in 1..Len(galleryItems) :
          /\ galleryItems[i].status = "error"
          /\ galleryItems[i].processedUrl = Null
          /\ galleryItems[j].status = "done"
          /\ galleryItems[j].processedUrl # Null
          /\ Coherent(galleryItems[j])
          /\ galleryItems[i].settingsUsed = galleryItems[j].settingsUsed

\* C19: when the processing of an ingested item fails, its gallery record
\* and, if it is the selected item, the selected-item record the viewer
\* shows both get status 'error'; no retry is started (no job and no timeout
\* is added).
C19_FailureShown ==
    [][\A job \in BagToSet(jobs) :
          (job.kind = "ingest" /\ JobReject(job)) =>
              /\ \A i \in 1..Len(galleryItems') :
                    galleryItems'[i].id = job.id => galleryItems'[i].status = "error"
              /\ (selectedItem # Null /\ selectedItem.id = job.id) =>
                    selectedItem'.status = "error"
              /\ BagCardinality(jobs') < BagCardinality(jobs)
              /\ timers' = timers]_vars

\* Every settings value that is stamped on an item, held for stamping, in a
\* pending timeout or handed to processSingleImage conforms to the ranges.
SettingsInRange ==
    /\ InRange(controls) /\ InRange(settingsRef)
    /\ \A i \in 1..Len(galleryItems) : InRange(galleryItems[i].settingsUsed)
    /\ selectedItem # Null => InRange(selectedItem.settingsUsed)
    /\ \A k \in 1..Len(timers) : InRange(timers[k].settings)
    /\ \A job \in BagToSet(jobs) : InRange(job.settings)

\* C20: after any sequence of slider moves, algorithm switches, selections
\* and ingestions every settings value handed to processSingleImage or
\* stamped on a gallery item conforms to the ranges (threshold in 0..100 for
\* adaptive, 50..220 for classic), and a change of algorithm leaves the
\* threshold at that algorithm's default (60 or 140).
C20_SettingsConform ==
    /\ []SettingsInRange
    /\ [][controls'.algorithm # controls.algorithm =>
             controls'.threshold = DefaultThreshold(controls'.algorithm)]_vars

\* C20 witness: an item stamped adaptive with the threshold at 100 is being
\* reprocessed after a switch to classic, with the classic default.
C20_Witness ==
    \E job \in BagToSet(jobs) :
        /\ job.kind = "live"
        /\ job.settings.algorithm = "classic"
        /\ job.settings.threshold = DefaultThresholdClassic
        /\ \E i \in 1..Len(galleryItems) :
              /\ galleryItems[i].id = job.id
              /\ galleryItems[i].settingsUsed.algorithm = "adaptive"
              /\ galleryItems[i].settingsUsed.threshold = ThresholdAdaptiveMax


-----------------------------------------------------------------------------
(* Buffers of processSingleImage (PipelineSpec)                            *)

\* Every pixel of croppedOriginal is the pixel of the rescaled source at the
\* position the crop window maps it to, or the fill of the margins; without
\* a crop croppedOriginal is the rescaled source.
OriginalPixelsOnly ==
    LET src == DrawScaled(img, settings)
        out == result.croppedOriginal
    IN  IF settings.autoCrop /\ box.hasContent
        THEN \A p \in 1..Len(out.data) :
                LET sx == box.minX + ((p - 1) % out.width) - settings.paddingLeft
                    sy == box.minY + ((p - 1) \div out.width) - settings.paddingTop
                IN  \/ out.data[p] = FillPixel(settings)
                    \/ InBuffer(src, sx, sy) /\ out.data[p] = Pixel(src, sx, sy)
        ELSE out = src

\* C21: the rescaled original buffer is written once, by the initial
\* rescale: from then on it holds the rescaled source and no later step
\* (background estimate, thresholding, compositing, content scan, crop)
\* changes it; the pixel rewriting happens on the working copy, and
\* croppedOriginal shows unprocessed source pixels.
C21_ScaledWrittenOnce ==
    /\ [](scaledCanvas # Null => scaledCanvas = DrawScaled(img, settings))
    /\ [][scaledCanvas # Null => scaledCanvas' = scaledCanvas]_vars
    /\ [](Done => OriginalPixelsOnly)

\* C21 witness: a cropped run is done whose working copy was rewritten (it
\* differs from the rescaled original) and whose croppedOriginal still
\* holds a source ink pixel that the processed output does not hold.
C21_Witness ==
    /\ Done /\ settings.autoCrop /\ box.hasContent
    /\ canvas # scaledCanvas
    /\ \E p \in 1..Len(result.croppedOriginal.data) :
          /\ result.croppedOriginal.data[p] = Ink
          /\ result.processed.data[p] # Ink


-----------------------------------------------------------------------------
(* The channels read by processSingleImage (PipelineSpec)                  *)

\* The image with the green and blue value of every pixel replaced; red and
\* alpha are kept.
Recolour(image, g, b) ==
    [width  |-> image.width,
     height |-> image.height,
     data   |-> [p \in 1..Len(image.data) |->
                    <<image.data[p][1], g, b, image.data[p][4]>>]]

\* Green and blue values given to the second source.
OtherColours == {<<0, 255>>, <<37, 201>>}

\* C22: the processed output depends on the source only through the red
\* channel.  A second source that agrees with the first on the red value of
\* every pixel and differs in green and blue gives, with the same settings:
\* the same background estimate, the same whiteness for every pixel, the
\* same composited buffer, the same bounding box and the same processed
\* output, on the classic and on the adaptive path.
C22_RedChannelOnly ==
    Done =>
        \A c \in OtherColours :
            LET other  == Recolour(img, c[1], c[2])
                scaled == DrawScaled(other, settings)
                work   == ThresholdAll(scaled, blurLevel, settings)
                b      == IF settings.autoCrop
                          THEN FindBoundingBox(work, TargetWidth(other, settings),
                                               ScaledHeight(other, settings), settings)
                          ELSE NoBox
            IN  /\ settings.algorithm = "adaptive" => blurLevel \in BlurLevels(scaled)
                /\ \A p \in 1..Len(scaled.data) :
                      Whiteness(scaled.data[p][1], blurLevel, settings)
                          = Whiteness(scaledCanvas.data[p][1], blurLevel, settings)
                /\ work = canvas
                /\ b = box
                /\ Assemble(work, scaled, b, settings).processed = result.processed

\* C22 witness: an adaptive, cropped run on an image with ink and paper is
\* done, and the second source, although it gives the same processed output,
\* is visibly another image: its croppedOriginal differs.
C22_Witness ==
    /\ Done /\ settings.algorithm = "adaptive" /\ settings.autoCrop /\ box.hasContent
    /\ \E p \in 1..Len(img.data) : img.data[p] = Ink
    /\ \E p \in 1..Len(img.data) : img.data[p] = Paper
    /\ \A c \in OtherColours :
          RunPipeline(Recolour(img, c[1], c[2]), settings, blurLevel).croppedOriginal
              # result.croppedOriginal


-----------------------------------------------------------------------------
(* Settings snapshots and selection in App3 (Spec)                         *)

\* C23: a newly ingested item is stamped with the control settings current
\* at ingestion, by value: a step that changes the controls, lets time pass
\* or starts a recomputation changes no record; a recomputation is set up
\* for the item selected in the render in which the settings changed, and
\* its completion or failure changes the record of that item only: the
\* settingsUsed, processedUrl, croppedOriginalUrl and status of every other
\* gallery item, and a selected item that is another item, are unchanged.
C23_SnapshotByValue ==
    /\ [][nextId' # nextId =>
             /\ Len(galleryItems') = Len(galleryItems) + (nextId' - nextId)
             /\ \A i \in 1..(nextId' - nextId) :
                   galleryItems'[i] = NewItem(nextId + i, controls)
             /\ \A i \in 1..Len(galleryItems) :
                   galleryItems'[i + (nextId' - nextId)] = galleryItems[i]]_vars
    /\ [][(ChangeThreshold \/ ChangeAlgorithm \/ Tick \/ \E k \in 1..Len(timers) : TimerFire(k)) =>
             galleryItems' = galleryItems /\ selectedItem' = selectedItem]_vars
    /\ [][controls' # controls =>
             \A k \in 1..Len(timers') :
                 timers'[k].ref =>
                     /\ selectedItem' # Null /\ timers'[k].id = selectedItem'.id
                     /\ timers'[k].settings = controls']_vars
    /\ [][\A job \in BagToSet(jobs) :
             (job.kind = "live" /\ (JobResolve(job) \/ JobReject(job))) =>
                 /\ Len(galleryItems') = Len(galleryItems)
                 /\ \A i \in 1..Len(galleryItems) :
                       galleryItems[i].id # job.id => galleryItems'[i] = galleryItems[i]
                 /\ (selectedItem # Null /\ selectedItem.id # job.id) =>
                       selectedItem' = selectedItem]_vars

\* C23 witness: a recomputation for one item is in flight with the current
\* control values while another item, done, holds the result and the
\* snapshot of other settings.
C23_Witness ==
    \E job \in BagToSet(jobs) :
        /\ job.kind = "live" /\ job.settings = controls
        /\ \E i, j \in 1..Len(galleryItems) :
              /\ galleryItems[i].id = job.id
              /\ galleryItems[j].id # job.id
              /\ galleryItems[j].status = "done"
              /\ galleryItems[j].processedUrl # Null
              /\ Coherent(galleryItems[j])
              /\ galleryItems[j].settingsUsed # job.settings


-----------------------------------------------------------------------------
(* Dark backgrounds (PipelineSpec)                                         *)

\* bgR + bgG + bgB of an opaque run.
BgSum(s) == BgColor(s)[1] + BgColor(s)[2] + BgColor(s)[3]

\* C24: in opaque mode with a background whose R+G+B is at most 30 the
\* content scan classifies no pixel as content, whatever the image and the
\* other settings, so autoCrop takes the full-frame fallback; with a
\* background whose R+G+B is above 30 every full-ink pixel (whiteness 0) of
\* the composited buffer is classified as content.
C24_DarkBackground ==
    (Done /\ ~settings.isTransparent) =>
        /\ (BgSum(settings) <= 30 /\ settings.autoCrop) =>
              /\ ~box.hasContent
              /\ result = FullFrame(canvas, scaledCanvas)
        /\ BgSum(settings) > 30 =>
              \A p \in 1..Len(canvas.data) :
                  Whiteness(scaledCanvas.data[p][1], blurLevel, settings).n = 0 =>
                      IsContent(canvas, 4 * (p - 1), settings)


\* C25: when a live-preview recomputation fails, the item keeps its
\* previous result: processedUrl, croppedOriginalUrl, settingsUsed and
\* status are unchanged in the gallery record and in the selected-item
\* record, and no other item is changed.
C25_LiveFailureKeepsResult ==
    [][\A job \in BagToSet(jobs) :
          (job.kind = "live" /\ JobReject(job)) =>
              galleryItems' = galleryItems /\ selectedItem' = selectedItem]_vars

\* C25 witness: the selected item is done and holds the coherent result of
\* settings that are not the control values, and nothing is pending or in
\* flight: the recomputation for the control values has failed.
C25_Witness ==
    /\ selectedItem # Null /\ selectedItem.status = "done"
    /\ selectedItem.processedUrl # Null /\ Coherent(selectedItem)
    /\ ~IsSame(selectedItem.settingsUsed, controls)
    /\ \E i \in 1..Len(galleryItems) : galleryItems[i] = selectedItem
    /\ jobs = EmptyBag /\ timers = <<>>


\* C26: selecting another gallery item only loads that item's settingsUsed
\* into the controls: once the effects of the selection have run the
\* controls equal the item's settingsUsed, no recomputation has been
\* scheduled (no timeout was set) and no record has changed; also when the
\* item's algorithm differs from the one shown before and its threshold is
\* not that algorithm's default.
C26_SelectionOnlyLoads ==
    [][(SelectItem /\ (selectedItem = Null \/ selectedItem.id # selectedItem'.id)) =>
          /\ IsSame(selectedItem'.settingsUsed, controls')
          /\ \A k \in 1..Len(timers') :
                timers'[k].ref => \E j \in 1..Len(timers) : timers[j] = timers'[k]
          /\ galleryItems' = galleryItems
          /\ \E i \in 1..Len(galleryItems) : galleryItems[i] = selectedItem']_vars


\* C27: in every reachable state selectedItem is null or its id is the id
\* of an item in galleryItems, after any sequence of ingest, select,
\* delete-item and clear-history actions (so deleting the selected item and
\* clearing the history leave no selection).
C27_SelectionValid ==
    \/ selectedItem = Null
    \/ \E i \in 1..Len(galleryItems) : galleryItems[i].id = selectedItem.id


\* The ids of the items in the gallery.
GalleryIds == {galleryItems[i].id : i \in 1..Len(galleryItems)}

\* C28: an item deleted from the gallery (or removed by clearing the
\* history) while its ingestion job or a live-preview job is in flight never
\* reappears in galleryItems: a step adds no id to the gallery but those of
\* newly ingested files, and the completion or failure of a job whose item
\* is not in the gallery changes no gallery record, nor the selected item
\* when that is another item.
C28_DeletedStaysDeleted ==
    /\ [][\A i \in 1..Len(galleryItems') :
             \/ galleryItems'[i].id \in GalleryIds
             \/ galleryItems'[i].id > nextId /\ galleryItems'[i].id <= nextId']_vars
    /\ [][\A job \in BagToSet(jobs) :
             ((JobResolve(job) \/ JobReject(job)) /\ job.id \notin GalleryIds) =>
                 /\ galleryItems' = galleryItems
                 /\ (selectedItem # Null /\ selectedItem.id # job.id) =>
                       selectedItem' = selectedItem]_vars

\* C28 witness: the job of an item that is no longer in the gallery is
\* still in flight, while the gallery holds another, finished item.
C28_Witness ==
    /\ Len(galleryItems) = 1
    /\ galleryItems[1].status = "done" /\ galleryItems[1].processedUrl # Null
    /\ \E job \in BagToSet(jobs) : job.id \notin GalleryIds /\ job.id <= nextId


-----------------------------------------------------------------------------
(* ConvergenceSpec: App3 when every computation completes successfully and *)
(* no item is removed.                                                     *)

NextC ==
    \/ ChangeThreshold
    \/ ChangeAlgorithm
    \/ HandleNewFiles
    \/ SelectItem
    \/ Tick
    \/ \E k \in 1..Len(timers) : TimerFire(k)
    \/ \E job \in BagToSet(jobs) : JobResolve(job)

ConvergenceSpec == Init /\ [][NextC]_vars

\* Nothing is pending and nothing is in flight: without further user input
\* no callback will run any more.
Quiescent == jobs = EmptyBag /\ timers = <<>>

\* C29: if an item stays selected, the user stops changing settings and
\* every launched computation completes successfully, then eventually the
\* selected item's settingsUsed equals the control settings and its
\* processedUrl is the result computed for those settings, whatever changes
\* were made meanwhile.  Once nothing is pending or in flight the state no
\* longer changes without user input, so in every such state with a
\* selected item the item has already converged.
C29_Convergence ==
    (selectedItem # Null /\ Quiescent) =>
        /\ IsSame(selectedItem.settingsUsed, controls)
        /\ selectedItem.processedUrl = ProcessResult(selectedItem.id, controls).processed


-----------------------------------------------------------------------------
(* MergeSpec: SheetMusicToolPro, the merge tool (src/src/v2/App.tsx)       *)
(*                                                                         *)
(* An image of the list is stood for by its id.  Every action is one event *)
(* handler or callback together with the render and the preview effect it  *)
(* triggers.  Every image load of a run succeeds: a preview URL is put in  *)
(* the list only after it has loaded once.                                 *)

MaxImages    == 2   \* images added in one run
MaxMergeRuns == 2   \* processAndMerge calls in flight at once

\* const delay = superResolution ? 600 : 300
MergeDelay                == 300
MergeDelaySuperResolution == 600

Delay(c) == IF c.superResolution THEN MergeDelaySuperResolution ELSE MergeDelay

\* canvas.toDataURL of a run: a function of the list (in order) and of the
\* three settings the run closes over, stood for by that pair.
MergeResult(imgs, c) == [images |-> imgs, settings |-> c]

\* REAL-TIME PREVIEW EFFECT, run after a render in which the list or a
\* setting changed to imgs, c: the pending timeout is cleared; an empty list
\* sets the result to null; otherwise a timeout is set whose callback calls
\* the processAndMerge of this render.
PreviewEffect(imgs, c) ==
    /\ images' = imgs
    /\ mergeControls' = c
    /\ processingTimeout' =
          IF imgs = <<>> THEN Null
          ELSE [images |-> imgs, settings |-> c, elapsed |-> 0]
    /\ processedResult' = IF imgs = <<>> THEN Null ELSE processedResult

\* handleFileUpload / handlePaste, when the new images have loaded:
\* setImages(prev => [...prev, ...newImages]).
AddImages ==
    /\ \E n \in 1..2 :
          /\ nextImageId + n <= MaxImages
          /\ PreviewEffect(images \o [k \in 1..n |-> nextImageId + k], mergeControls)
          /\ nextImageId' = nextImageId + n
    /\ UNCHANGED <<isProcessing, mergeRuns>>
    /\ UNCHANGED otherVars

\* removeImage(id)
RemoveImage ==
    /\ \E k \in 1..Len(images) :
          PreviewEffect(SelectSeq(images, LAMBDA i : i # images[k]), mergeControls)
    /\ UNCHANGED <<isProcessing, mergeRuns, nextImageId>>
    /\ UNCHANGED otherVars

\* moveImage(index, 'down') (moveImage(index + 1, 'up') does the same).
MoveImage ==
    /\ \E k \in 1..(Len(images) - 1) :
          PreviewEffect([images EXCEPT ![k] = images[k + 1], ![k + 1] = images[k]],
                        mergeControls)
    /\ UNCHANGED <<isProcessing, mergeRuns, nextImageId>>
    /\ UNCHANGED otherVars

\* onClick of the clear button: setImages([]).
ClearImages ==
    /\ Len(images) > 0
    /\ PreviewEffect(<<>>, mergeControls)
    /\ UNCHANGED <<isProcessing, mergeRuns, nextImageId>>
    /\ UNCHANGED otherVars

\* onChange of the threshold slider (the contrastBoost slider acts alike).
ChangeMergeThreshold ==
    /\ \E v \in {MergeDefaultThreshold, MergeThresholdMax} :
          /\ v # mergeControls.threshold
          /\ PreviewEffect(images, [mergeControls EXCEPT !.threshold = v])
    /\ UNCHANGED <<isProcessing, mergeRuns, nextImageId>>
    /\ UNCHANGED otherVars

\* onClick of the super-resolution switch.
ToggleSuperResolution ==
    /\ PreviewEffect(images, [mergeControls EXCEPT !.superResolution = ~@])
    /\ UNCHANGED <<isProcessing, mergeRuns, nextImageId>>
    /\ UNCHANGED otherVars

\* Time passes while a timeout is pending.
MergeTick ==
    /\ processingTimeout # Null
    /\ processingTimeout.elapsed < Delay(processingTimeout.settings)
    /\ processingTimeout' =
          [processingTimeout EXCEPT
              !.elapsed = Min(@ + TickMs, Delay(processingTimeout.settings))]
    /\ UNCHANGED <<images, processedResult, isProcessing, mergeControls, mergeRuns, nextImageId>>
    /\ UNCHANGED otherVars

\* The timeout callback: processAndMerge() of the render that set it.  Its
\* list is not empty; setIsProcessing(true), then the image loads are
\* awaited.
MergeTimeoutFire ==
    /\ processingTimeout # Null
    /\ processingTimeout.elapsed >= Delay(processingTimeout.settings)
    /\ BagCardinality(mergeRuns) < MaxMergeRuns
    /\ mergeRuns' = mergeRuns (+) SetToBag({[images   |-> processingTimeout.images,
                                             settings |-> processingTimeout.settings]})
    /\ isProcessing' = TRUE
    /\ processingTimeout' = Null
    /\ UNCHANGED <<images, processedResult, mergeControls, nextImageId>>
    /\ UNCHANGED otherVars

\* The images of a run have loaded: the canvas is drawn,
\* setProcessedResult(canvas.toDataURL(...)), finally setIsProcessing(false).
MergeRunComplete(run) ==
    /\ BagIn(run, mergeRuns)
    /\ processedResult' = MergeResult(run.images, run.settings)
    /\ isProcessing' = FALSE
    /\ mergeRuns' = mergeRuns (-) SetToBag({run})
    /\ UNCHANGED <<images, mergeControls, processingTimeout, nextImageId>>
    /\ UNCHANGED otherVars

NextM ==
    \/ AddImages
    \/ RemoveImage
    \/ MoveImage
    \/ ClearImages
    \/ ChangeMergeThreshold
    \/ ToggleSuperResolution
    \/ MergeTick
    \/ MergeTimeoutFire
    \/ \E run \in BagToSet(mergeRuns) : MergeRunComplete(run)

MergeSpec == Init /\ [][NextM]_vars

\* C30: once the image list is empty the merged result is null and stays
\* null until an image is added, even when a processAndMerge run was in
\* flight when the list was emptied; and whenever the list is not empty and
\* no change is pending (no timeout is set and no run is in flight) the
\* result shown is the one computed from the current list and the current
\* settings, not that of an earlier run that completed late.
C30_MergeResultCurrent ==
    /\ images = <<>> => processedResult = Null
    /\ (images # <<>> /\ processingTimeout = Null /\ mergeRuns = EmptyBag) =>
          processedResult = MergeResult(images, mergeControls)

=============================================================================
